---- MODULE Spec2Model ----
(***************************************************************************)
(* Model of maps_agent.py: the POST /run endpoint.  One request handler    *)
(* (run_agents) acquires a scoped MCPServerStdio connection and runs three *)
(* agent invocations one after the other (source Business Finder,          *)
(* destination Business Finder, Similar Area Finder), then answers with a  *)
(* RunResponse; an AgentsException is turned into HTTPException(500).      *)
(*                                                                         *)
(* The agent runtime (Runner.run), the MCP subprocess and the web          *)
(* framework are outside the repository.  They are modelled by their       *)
(* interface as the handler uses it: Runner.run proceeds turn by turn up   *)
(* to max_turns and ends with a final output or an exception; acquiring    *)
(* the MCP server succeeds or raises; the framework validates the body     *)
(* against RunRequest before calling the handler, answers a raised         *)
(* HTTPException with its status and detail, and answers an exception that *)
(* leaves the handler with its generic 500.  Every await of the handler is *)
(* a point where another request's handler may run.                        *)
(***************************************************************************)
EXTENDS Naturals, Sequences, FiniteSets, TLC

VARIABLES
    pc,                     \* position of each request's handler
    body,                   \* the JSON body each request arrived with
    req,                    \* the validated RunRequest (req)
    servers,                \* every MCPServerStdio instance created so far
    googleMapsMcpServer,    \* index in servers of the instance a request holds (0: none)
    spawned,                \* number of MCPServerStdio acquisitions a request attempted
    inflight,               \* the Runner.run calls of a request that have not ended
    started,                \* the agents a request has started, in order
    source_businesses,      \* local of run_agents
    destination_businesses, \* local of run_agents
    similarity_prompt,      \* local of run_agents
    produced,               \* what the agent runtime returned to the request
    outcome,                \* how the body of the try statement ended
    resp                    \* the HTTP response of the request

vars == <<pc, body, req, servers, googleMapsMcpServer, spawned, inflight, started,
          source_businesses, destination_businesses, similarity_prompt,
          produced, outcome, resp>>

-----------------------------------------------------------------------------
(* Bounds and input domains *)

\* Longest business list a finder returns in the single-request specification.
MaxLen == 2

\* Requests handled concurrently by the server.
Requests == {"r1", "r2"}

\* The request of the single-request specifications.
SoloRequest == "r1"

\* max_turns of the two Business Finder runs and of the Similar Area Finder run.
BUSINESS_MAX_TURNS == 15
SIMILARITY_MAX_TURNS == 20

NoneV == [none |-> TRUE]
Num(n) == [num |-> n]
Str(s) == [str |-> s]

ItemA == [location_name |-> "Cafe A", latitude |-> 44, longitude |-> 26,
          rating |-> Num(4), number_of_reviews |-> Num(10),
          description |-> Str("coffee"), distance_meters |-> Num(120)]
ItemB == [location_name |-> "Shop B", latitude |-> 45, longitude |-> 25,
          rating |-> Num(0), number_of_reviews |-> NoneV,
          description |-> NoneV, distance_meters |-> NoneV]
Items == {ItemA, ItemB}

BoundedLists(n) == UNION {[1..k -> Items] : k \in 0..n}

\* Lists the finders return when two requests run concurrently.
ConcurrentLists == {<<ItemA>>, <<ItemB, ItemA>>}

SimilarAreas ==
    {[center_latitude |-> 47, center_longitude |-> 27, radius_meters |-> 300,
      matched_businesses |-> <<ItemA>>],
     [center_latitude |-> 46, center_longitude |-> 23, radius_meters |-> 800,
      matched_businesses |-> <<>>]}

\* Exceptions the awaited calls raise; the first three derive from AgentsException.
AgentsExceptions == {"MaxTurnsExceeded", "ModelBehaviorError", "UserError"}
OtherExceptions == {"OSError"}
AcquireExceptions == {"UserError", "OSError"}
TurnExceptions == {"ModelBehaviorError", "OSError"}

-----------------------------------------------------------------------------
(* Request model: RunRequest and its validation *)

Missing == [missing |-> TRUE]
JStr(s) == [str |-> s]
JInt(n) == [int |-> n]
JList(l) == [list |-> l]

IsStr(v) == DOMAIN v = {"str"}
IsInt(v) == DOMAIN v = {"int"}
IsList(v) == DOMAIN v = {"list"}
IsMissing(v) == DOMAIN v = {"missing"}

GoodBody ==
    [source_address |-> JStr("1 Main St, Springfield"), source_radius |-> JInt(500),
     destination_address |-> JStr("1 Main St, Shelbyville"),
     destination_radius |-> JInt(300),
     comparison_city |-> JStr("Capital City"),
     industries |-> JList(<<"coffee shop", "bakery">>)]

\* The JSON bodies a client sends: well formed, without the optional field,
\* without a required field, and with a required field of the wrong type.
Bodies ==
    << GoodBody,
       [GoodBody EXCEPT !.industries = Missing],
       [GoodBody EXCEPT !.source_address = Missing],
       [GoodBody EXCEPT !.source_radius = JList(<<>>)] >>

\* Bodies sent when two requests run concurrently: the well-formed one and the
\* two malformed ones.
ConcurrentBodies == {1, 3, 4}

\* RunRequest: five required fields with their types, industries optional.
Validates(b) ==
    /\ IsStr(b.source_address)
    /\ IsInt(b.source_radius)
    /\ IsStr(b.destination_address)
    /\ IsInt(b.destination_radius)
    /\ IsStr(b.comparison_city)
    /\ (IsMissing(b.industries) \/ IsList(b.industries))

\* The RunRequest instance built from a body that validates.
ParseRequest(b) ==
    [source_address |-> b.source_address.str,
     source_radius |-> b.source_radius.int,
     destination_address |-> b.destination_address.str,
     destination_radius |-> b.destination_radius.int,
     comparison_city |-> b.comparison_city.str,
     industries |-> IF IsMissing(b.industries) THEN <<>> ELSE b.industries.list]

NoRequest ==
    [source_address |-> "", source_radius |-> 0, destination_address |-> "",
     destination_radius |-> 0, comparison_city |-> "", industries |-> <<>>]

-----------------------------------------------------------------------------
(* Prompt construction *)

\* " or ".join(industries), as the sequence of its pieces.
RECURSIVE JoinOr(_)
JoinOr(l) ==
    IF Len(l) = 0 THEN <<>>
    ELSE IF Len(l) = 1 THEN <<l[1]>>
    ELSE <<l[1], " or ">> \o JoinOr(Tail(l))

\* The prompt of run_business_agent.
BusinessPrompt(address, radius, industries) ==
    [task |-> "businesses", industries |-> JoinOr(industries),
     radius |-> radius, address |-> address, lines |-> <<>>]

\* Python truthiness of an Optional number: None and 0 are false.
Truthy(v) == DOMAIN v = {"num"} /\ v.num # 0

\* One line of business_list_str:
\* "- {location_name} ({description}), rated {rating or 'N/A'} with {number_of_reviews or 0} reviews"
BusinessLine(b) ==
    [location_name |-> b.location_name,
     description |-> IF DOMAIN b.description = {"str"} THEN b.description.str ELSE "None",
     rated |-> IF Truthy(b.rating) THEN b.rating ELSE Str("N/A"),
     reviews |-> IF Truthy(b.number_of_reviews) THEN b.number_of_reviews.num ELSE 0]

\* business_list_str: one line per entry of the list, in the list's order.
BusinessListStr(businesses) ==
    [i \in 1..Len(businesses) |-> BusinessLine(businesses[i])]

\* similarity_prompt.
SimilarityPrompt(businesses, city) ==
    [task |-> "similar area", industries |-> <<>>, radius |-> 0, address |-> city,
     lines |-> BusinessListStr(businesses)]

NoPrompt == [task |-> "", industries |-> <<>>, radius |-> 0, address |-> "", lines |-> <<>>]

-----------------------------------------------------------------------------
(* Values of the handler *)

None == <<>>
Some(x) == <<x>>
IsSome(o) == Len(o) = 1
Get(o) == o[1]

\* str(e) of each exception.
Message(exc) ==
    CASE exc = "MaxTurnsExceeded" -> "Max turns exceeded"
      [] exc = "ModelBehaviorError" -> "Invalid JSON when parsing the final output"
      [] exc = "UserError" -> "Server not initialized"
      [] OTHER -> "No such file or directory"

\* The Runner.run call of one agent: the agent's name, the MCP server in its
\* mcp_servers, the prompt, max_turns, and the turns run so far.
Invocation(agent, mcp_server, prompt, max_turns) ==
    [agent |-> agent, mcp_server |-> mcp_server, prompt |-> prompt,
     max_turns |-> max_turns, turn |-> 0]

\* Variant of RunBusinessAgent: the Business Finder is run with the Similar Area
\* Finder's max_turns.
RunBusinessAgentWide(agent, mcp_server, address, radius, industries) ==
    [agent |-> agent, mcp_server |-> mcp_server,
     prompt |-> BusinessPrompt(address, radius, industries),
     max_turns |-> SIMILARITY_MAX_TURNS, turn |-> 0]

\* run_business_agent up to its await: the agent is built on mcp_server and run
\* with max_turns=15.
RunBusinessAgent(agent, mcp_server, address, radius, industries) ==
    Invocation(agent, mcp_server, BusinessPrompt(address, radius, industries),
               BUSINESS_MAX_TURNS)

\* Step 3 up to its await: similarity_agent is built on the same server and run on
\* similarity_prompt with max_turns=20.
RunSimilarityAgent(mcp_server, prompt) ==
    Invocation("similarity", mcp_server, prompt, SIMILARITY_MAX_TURNS)

\* Variant of RunResponse: the two lists are passed in each other's place.
RunResponseSwapped(source, destination, similar_area) ==
    [source_businesses |-> [businesses |-> destination],
     destination_businesses |-> [businesses |-> source],
     similar_area |-> similar_area]

\* RunResponse(source_businesses=..., destination_businesses=..., similar_area=...).
RunResponse(source, destination, similar_area) ==
    [source_businesses |-> [businesses |-> source],
     destination_businesses |-> [businesses |-> destination],
     similar_area |-> similar_area]

NoOutcome == [kind |-> "none", value |-> None, exc |-> "", at |-> ""]
Returned(value) == [kind |-> "return", value |-> Some(value), exc |-> "", at |-> ""]
Raised(exc, at) == [kind |-> "raise", value |-> None, exc |-> exc, at |-> at]

\* The framework's answers: the response model with 200, an HTTPException with its
\* status and detail, the generic answer to an exception nobody caught, and the
\* validation error.
OkAnswer(value) == [status |-> 200, detail |-> None, body |-> Some(value)]
HTTPException(status_code, detail) ==
    [status |-> status_code, detail |-> Some(detail), body |-> None]
ServerError == [status |-> 500, detail |-> None, body |-> None]
ValidationError ==
    [status |-> 422, detail |-> Some("Field required or of the wrong type"), body |-> None]

\* except AgentsException as e: raise HTTPException(status_code=500, detail=str(e));
\* any other exception leaves the handler.
Answer(o) ==
    IF o.kind = "return" THEN OkAnswer(Get(o.value))
    ELSE IF o.exc \in AgentsExceptions THEN HTTPException(500, Message(o.exc))
    ELSE ServerError

NoProduced == [source |-> None, destination |-> None, similarity |-> None]

-----------------------------------------------------------------------------
(* Initial state: no request has arrived *)

Init ==
    /\ pc = [r \in Requests |-> "idle"]
    /\ body = [r \in Requests |-> 0]
    /\ req = [r \in Requests |-> NoRequest]
    /\ servers = <<>>
    /\ googleMapsMcpServer = [r \in Requests |-> 0]
    /\ spawned = [r \in Requests |-> 0]
    /\ inflight = [r \in Requests |-> {}]
    /\ started = [r \in Requests |-> <<>>]
    /\ source_businesses = [r \in Requests |-> None]
    /\ destination_businesses = [r \in Requests |-> None]
    /\ similarity_prompt = [r \in Requests |-> NoPrompt]
    /\ produced = [r \in Requests |-> NoProduced]
    /\ outcome = [r \in Requests |-> NoOutcome]
    /\ resp = [r \in Requests |-> None]

Locals == <<source_businesses, destination_businesses, similarity_prompt, produced>>

-----------------------------------------------------------------------------
(* POST /run: the body is validated against RunRequest before run_agents runs *)

\* Variant of Receive: the handler takes the body as it is and runs.
ReceiveUnvalidated(r, i) ==
    /\ pc[r] = "idle"
    /\ body' = [body EXCEPT ![r] = i]
    /\ req' = [req EXCEPT ![r] =
           IF Validates(Bodies[i]) THEN ParseRequest(Bodies[i]) ELSE NoRequest]
    /\ pc' = [pc EXCEPT ![r] = "acquire"]
    /\ UNCHANGED <<servers, googleMapsMcpServer, spawned, inflight, started,
                   Locals, outcome, resp>>

Receive(r, i) ==
    /\ pc[r] = "idle"
    /\ body' = [body EXCEPT ![r] = i]
    /\ IF Validates(Bodies[i])
       THEN /\ req' = [req EXCEPT ![r] = ParseRequest(Bodies[i])]
            /\ pc' = [pc EXCEPT ![r] = "acquire"]
            /\ resp' = resp
       ELSE /\ req' = req
            /\ pc' = [pc EXCEPT ![r] = "done"]
            /\ resp' = [resp EXCEPT ![r] = Some(ValidationError)]
    /\ UNCHANGED <<servers, googleMapsMcpServer, spawned, inflight, started,
                   Locals, outcome>>

\* Variant of AcquireOk: the two Business Finders are started together.
AcquireOkGather(r) ==
    /\ pc[r] = "acquire"
    /\ spawned' = [spawned EXCEPT ![r] = @ + 1]
    /\ servers' = Append(servers, [state |-> "open", owner |-> r])
    /\ googleMapsMcpServer' = [googleMapsMcpServer EXCEPT ![r] = Len(servers) + 1]
    /\ inflight' = [inflight EXCEPT ![r] =
           {RunBusinessAgent("source", Len(servers) + 1, req[r].source_address,
                             req[r].source_radius, req[r].industries),
            RunBusinessAgent("destination", Len(servers) + 1,
                             req[r].destination_address, req[r].destination_radius,
                             req[r].industries)}]
    /\ started' = [started EXCEPT ![r] = Append(@, "source")]
    /\ pc' = [pc EXCEPT ![r] = "source"]
    /\ UNCHANGED <<body, req, Locals, outcome, resp>>

\* Variant of AcquireOk: one module-level MCP server is connected by the first
\* request and used by every later one.
AcquireOkShared(r) ==
    /\ pc[r] = "acquire"
    /\ spawned' = [spawned EXCEPT ![r] = @ + 1]
    /\ servers' = IF Len(servers) = 0
                  THEN Append(servers, [state |-> "open", owner |-> r])
                  ELSE servers
    /\ googleMapsMcpServer' = [googleMapsMcpServer EXCEPT ![r] = 1]
    /\ inflight' = [inflight EXCEPT ![r] =
           {RunBusinessAgent("source", 1, req[r].source_address,
                             req[r].source_radius, req[r].industries)}]
    /\ started' = [started EXCEPT ![r] = Append(@, "source")]
    /\ pc' = [pc EXCEPT ![r] = "source"]
    /\ UNCHANGED <<body, req, Locals, outcome, resp>>

\* async with MCPServerStdio(...) as googleMapsMcpServer: a new instance is created
\* and connected, and step 1 starts the source Business Finder on it.
AcquireOk(r) ==
    /\ pc[r] = "acquire"
    /\ spawned' = [spawned EXCEPT ![r] = @ + 1]
    /\ servers' = Append(servers, [state |-> "open", owner |-> r])
    /\ googleMapsMcpServer' = [googleMapsMcpServer EXCEPT ![r] = Len(servers) + 1]
    /\ inflight' = [inflight EXCEPT ![r] =
           {RunBusinessAgent("source", Len(servers) + 1, req[r].source_address,
                             req[r].source_radius, req[r].industries)}]
    /\ started' = [started EXCEPT ![r] = Append(@, "source")]
    /\ pc' = [pc EXCEPT ![r] = "source"]
    /\ UNCHANGED <<body, req, Locals, outcome, resp>>

\* Entering the async with raises: no server is held, nothing is run, and the
\* exception reaches the except clause at once.
AcquireFail(r, exc) ==
    /\ pc[r] = "acquire"
    /\ spawned' = [spawned EXCEPT ![r] = @ + 1]
    /\ outcome' = [outcome EXCEPT ![r] = Raised(exc, "acquire")]
    /\ resp' = [resp EXCEPT ![r] = Some(Answer(Raised(exc, "acquire")))]
    /\ pc' = [pc EXCEPT ![r] = "done"]
    /\ UNCHANGED <<body, req, servers, googleMapsMcpServer, inflight, started, Locals>>

-----------------------------------------------------------------------------
(* Runner.run(agent, prompt, max_turns=...): one action per turn *)

Connected(inv) == servers[inv.mcp_server].state = "open"

\* A turn that ends in tool calls on the agent's MCP server: the run goes on.
TurnAgain(r, inv) ==
    /\ inv \in inflight[r]
    /\ inv.turn < inv.max_turns
    /\ Connected(inv)
    /\ inflight' = [inflight EXCEPT ![r] =
           (@ \ {inv}) \cup {[inv EXCEPT !.turn = @ + 1]}]
    /\ UNCHANGED <<pc, body, req, servers, googleMapsMcpServer, spawned, started,
                   Locals, outcome, resp>>

\* Variant of Abort: a failed source Business Finder is taken as an empty list
\* and the chain goes on.
AbortContinue(r, inv, exc) ==
    IF inv.agent = "source"
    THEN /\ outcome' = [outcome EXCEPT ![r] = Raised(exc, inv.agent)]
         /\ source_businesses' = [source_businesses EXCEPT ![r] = Some(<<>>)]
         /\ inflight' = [inflight EXCEPT ![r] = (@ \ {inv}) \cup
                {RunBusinessAgent("destination", googleMapsMcpServer[r],
                                  req[r].destination_address,
                                  req[r].destination_radius, req[r].industries)}]
         /\ started' = [started EXCEPT ![r] = Append(@, "destination")]
         /\ pc' = [pc EXCEPT ![r] = "destination"]
         /\ UNCHANGED <<body, req, servers, googleMapsMcpServer, spawned,
                        destination_businesses, similarity_prompt, produced, resp>>
    ELSE /\ inflight' = [inflight EXCEPT ![r] = @ \ {inv}]
         /\ outcome' = [outcome EXCEPT ![r] = Raised(exc, inv.agent)]
         /\ pc' = [pc EXCEPT ![r] = "exit"]
         /\ UNCHANGED <<body, req, servers, googleMapsMcpServer, spawned, started,
                        Locals, resp>>

\* The exception leaves Runner.run, run_business_agent and the body of the
\* async with: no later statement of the body runs.
Abort(r, inv, exc) ==
    /\ inflight' = [inflight EXCEPT ![r] = @ \ {inv}]
    /\ outcome' = [outcome EXCEPT ![r] = Raised(exc, inv.agent)]
    /\ pc' = [pc EXCEPT ![r] = "exit"]
    /\ UNCHANGED <<body, req, servers, googleMapsMcpServer, spawned, started,
                   Locals, resp>>

\* A turn raises (a tool call fails, the output does not fit output_type, the
\* model cannot be reached).
TurnRaise(r, inv, exc) ==
    /\ inv \in inflight[r]
    /\ pc[r] \in {"source", "destination", "similarity"}
    /\ inv.turn < inv.max_turns
    /\ Abort(r, inv, exc)

\* max_turns turns have run without a final output: MaxTurnsExceeded.
TurnsExceeded(r, inv) ==
    /\ inv \in inflight[r]
    /\ pc[r] \in {"source", "destination", "similarity"}
    /\ inv.turn = inv.max_turns
    /\ Abort(r, inv, "MaxTurnsExceeded")

\* Step 1 ends: run_business_agent returns result.final_output.businesses, and
\* step 2 starts the destination Business Finder.
SourceDone(r, inv, out) ==
    /\ pc[r] = "source"
    /\ inv \in inflight[r]
    /\ inv.agent = "source"
    /\ inv.turn < inv.max_turns
    /\ produced' = [produced EXCEPT ![r].source = Some(out)]
    /\ source_businesses' = [source_businesses EXCEPT ![r] = Some(out)]
    /\ inflight' = [inflight EXCEPT ![r] = (@ \ {inv}) \cup
           {RunBusinessAgent("destination", googleMapsMcpServer[r],
                             req[r].destination_address, req[r].destination_radius,
                             req[r].industries)}]
    /\ started' = [started EXCEPT ![r] = Append(@, "destination")]
    /\ pc' = [pc EXCEPT ![r] = "destination"]
    /\ UNCHANGED <<body, req, servers, googleMapsMcpServer, spawned,
                   destination_businesses, similarity_prompt, outcome, resp>>

\* Variant of DestinationDone: step 3 is written after the async with, so the
\* server is shut down before the Similar Area Finder is started.
DestinationDoneOutside(r, inv, out) ==
    /\ pc[r] = "destination"
    /\ inv \in inflight[r]
    /\ inv.agent = "destination"
    /\ inv.turn < inv.max_turns
    /\ produced' = [produced EXCEPT ![r].destination = Some(out)]
    /\ destination_businesses' = [destination_businesses EXCEPT ![r] = Some(out)]
    /\ servers' = [servers EXCEPT ![googleMapsMcpServer[r]].state = "closed"]
    /\ similarity_prompt' = [similarity_prompt EXCEPT ![r] =
           SimilarityPrompt(Get(source_businesses[r]), req[r].comparison_city)]
    /\ inflight' = [inflight EXCEPT ![r] = (@ \ {inv}) \cup
           {RunSimilarityAgent(googleMapsMcpServer[r],
               SimilarityPrompt(Get(source_businesses[r]), req[r].comparison_city))}]
    /\ started' = [started EXCEPT ![r] = Append(@, "similarity")]
    /\ pc' = [pc EXCEPT ![r] = "similarity"]
    /\ UNCHANGED <<body, req, googleMapsMcpServer, spawned,
                   source_businesses, outcome, resp>>

\* Step 2 ends, and step 3 builds similarity_prompt from source_businesses and
\* starts the Similar Area Finder.
DestinationDone(r, inv, out) ==
    /\ pc[r] = "destination"
    /\ inv \in inflight[r]
    /\ inv.agent = "destination"
    /\ inv.turn < inv.max_turns
    /\ produced' = [produced EXCEPT ![r].destination = Some(out)]
    /\ destination_businesses' = [destination_businesses EXCEPT ![r] = Some(out)]
    /\ similarity_prompt' = [similarity_prompt EXCEPT ![r] =
           SimilarityPrompt(Get(source_businesses[r]), req[r].comparison_city)]
    /\ inflight' = [inflight EXCEPT ![r] = (@ \ {inv}) \cup
           {RunSimilarityAgent(googleMapsMcpServer[r],
               SimilarityPrompt(Get(source_businesses[r]), req[r].comparison_city))}]
    /\ started' = [started EXCEPT ![r] = Append(@, "similarity")]
    /\ pc' = [pc EXCEPT ![r] = "similarity"]
    /\ UNCHANGED <<body, req, servers, googleMapsMcpServer, spawned,
                   source_businesses, outcome, resp>>

\* Step 3 ends: the RunResponse is built and returned from inside the async with.
SimilarityDone(r, inv, out) ==
    /\ pc[r] = "similarity"
    /\ inv \in inflight[r]
    /\ inv.agent = "similarity"
    /\ inv.turn < inv.max_turns
    /\ produced' = [produced EXCEPT ![r].similarity = Some(out)]
    /\ inflight' = [inflight EXCEPT ![r] = @ \ {inv}]
    /\ outcome' = [outcome EXCEPT ![r] =
           Returned(RunResponse(Get(source_businesses[r]),
                                Get(destination_businesses[r]), out))]
    /\ pc' = [pc EXCEPT ![r] = "exit"]
    /\ UNCHANGED <<body, req, servers, googleMapsMcpServer, spawned, started,
                   source_businesses, destination_businesses, similarity_prompt, resp>>

-----------------------------------------------------------------------------
(* Leaving the async with, and the answer *)

\* Variant of Release: the server is shut down by a statement at the end of the
\* body, which an exception skips.
ReleaseOnReturn(r) ==
    /\ pc[r] = "exit"
    /\ servers' = IF outcome[r].kind = "return"
                  THEN [servers EXCEPT ![googleMapsMcpServer[r]].state = "closed"]
                  ELSE servers
    /\ pc' = [pc EXCEPT ![r] = "respond"]
    /\ UNCHANGED <<body, req, googleMapsMcpServer, spawned, inflight, started,
                   Locals, outcome, resp>>

\* __aexit__ of the async with: the server the request holds is shut down,
\* whether the body returned or raised.
Release(r) ==
    /\ pc[r] = "exit"
    /\ servers' = [servers EXCEPT ![googleMapsMcpServer[r]].state = "closed"]
    /\ pc' = [pc EXCEPT ![r] = "respond"]
    /\ UNCHANGED <<body, req, googleMapsMcpServer, spawned, inflight, started,
                   Locals, outcome, resp>>

\* The returned RunResponse, or the except clause, decides the answer.
Respond(r) ==
    /\ pc[r] = "respond"
    /\ resp' = [resp EXCEPT ![r] = Some(Answer(outcome[r]))]
    /\ pc' = [pc EXCEPT ![r] = "done"]
    /\ UNCHANGED <<body, req, servers, googleMapsMcpServer, spawned, inflight,
                   started, Locals, outcome>>

-----------------------------------------------------------------------------
(* Specifications *)

\* Every step request r can take; it arrives with one of `bodies`, and the
\* finders return lists of `lists`.
Handle(r, bodies, lists) ==
    \/ \E i \in bodies : Receive(r, i)
    \/ AcquireOk(r)
    \/ \E exc \in AcquireExceptions : AcquireFail(r, exc)
    \/ \E inv \in inflight[r] : TurnAgain(r, inv)
    \/ \E inv \in inflight[r], exc \in TurnExceptions : TurnRaise(r, inv, exc)
    \/ \E inv \in inflight[r] : TurnsExceeded(r, inv)
    \/ \E inv \in inflight[r], out \in lists : SourceDone(r, inv, out)
    \/ \E inv \in inflight[r], out \in lists : DestinationDone(r, inv, out)
    \/ \E inv \in inflight[r], out \in SimilarAreas : SimilarityDone(r, inv, out)
    \/ Release(r)
    \/ Respond(r)

\* The steps after the request has arrived.
Progress(r, lists) ==
    \/ AcquireOk(r)
    \/ \E exc \in AcquireExceptions : AcquireFail(r, exc)
    \/ \E inv \in inflight[r] : TurnAgain(r, inv)
    \/ \E inv \in inflight[r], exc \in TurnExceptions : TurnRaise(r, inv, exc)
    \/ \E inv \in inflight[r] : TurnsExceeded(r, inv)
    \/ \E inv \in inflight[r], out \in lists : SourceDone(r, inv, out)
    \/ \E inv \in inflight[r], out \in lists : DestinationDone(r, inv, out)
    \/ \E inv \in inflight[r], out \in SimilarAreas : SimilarityDone(r, inv, out)
    \/ Release(r)
    \/ Respond(r)

\* The server handles the requests concurrently: their steps interleave.
Next == \E r \in Requests : Handle(r, ConcurrentBodies, ConcurrentLists)

Spec == Init /\ [][Next]_vars

\* One request alone, with every list of at most MaxLen businesses.
NextSolo == Handle(SoloRequest, DOMAIN Bodies, BoundedLists(MaxLen))

SpecSolo == Init /\ [][NextSolo]_vars

\* One request alone, every awaited call eventually ending: the event loop resumes
\* a handler whose awaited call has ended.
FairSolo == SpecSolo /\ WF_vars(Progress(SoloRequest, BoundedLists(MaxLen)))

-----------------------------------------------------------------------------
(* Properties *)

Chain == <<"source", "destination", "similarity">>

Answered(r) == IsSome(resp[r])
Status(r) == Get(resp[r]).status
Failed(r) == outcome[r].kind = "raise"
Malformed(r) == body[r] # 0 /\ ~Validates(Bodies[body[r]])
Holds(r) == googleMapsMcpServer[r] # 0

\* The agents started by the time a failure at `at` has happened.
StartedUpTo(at) ==
    CASE at = "source" -> SubSeq(Chain, 1, 1)
      [] at = "destination" -> SubSeq(Chain, 1, 2)
      [] at = "similarity" -> Chain
      [] OTHER -> <<>>

\* C1: once a step of a request has failed (the source Business Finder in
\* particular), no invocation of that request is running, none later than the
\* failed one has been or is ever started, and the request is answered with 500.
C1_FailureStopsChain ==
    \A r \in Requests :
        Failed(r) =>
            /\ inflight[r] = {}
            /\ started[r] = StartedUpTo(outcome[r].at)
            /\ pc[r] \in {"exit", "respond", "done"}
            /\ (Answered(r) => Status(r) = 500)

\* A request whose source Business Finder failed has been answered, while the
\* other request is past its own source step.
C1_Witness ==
    \E r \in Requests :
        /\ Answered(r) /\ Failed(r) /\ outcome[r].at = "source"
        /\ started[r] = <<"source">>
        /\ Status(r) = 500
        /\ \E q \in Requests \ {r} : Len(started[q]) >= 2

\* C2: the invocations of a request are started in the order source,
\* destination, similarity, each at most once, each after the one before it has
\* returned its output, and at most one of them is running at any time.
C2_StrictOrder ==
    \A r \in Requests :
        /\ Cardinality(inflight[r]) <= 1
        /\ Len(started[r]) <= 3
        /\ started[r] = SubSeq(Chain, 1, Len(started[r]))
        /\ \A inv \in inflight[r] : inv.agent = started[r][Len(started[r])]
        /\ (Len(started[r]) >= 2 => IsSome(produced[r].source))
        /\ (Len(started[r]) >= 3 => IsSome(produced[r].destination))

\* A request ran all three invocations and was answered with 200.
C2_Witness ==
    \E r \in Requests :
        Answered(r) /\ Status(r) = 200 /\ started[r] = Chain /\ inflight[r] = {}

\* C3: a request that has its answer no longer holds an open MCP server,
\* whether its body returned or raised, and whatever was raised.
C3_ReleasedWhenAnswered ==
    \A r \in Requests :
        Answered(r) /\ Holds(r) => servers[googleMapsMcpServer[r]].state = "closed"

\* A request that acquired its server failed with an exception that is not an
\* AgentsException, and has been answered.
C3_Witness ==
    \E r \in Requests :
        /\ Answered(r) /\ Holds(r) /\ Failed(r)
        /\ outcome[r].exc \notin AgentsExceptions
        /\ servers[googleMapsMcpServer[r]].state = "closed"

\* C4: a request whose acquisition of the MCP server failed is answered as an
\* agent-runtime failure is, with status 500 and a detail text, and has started
\* no invocation.
C4_AcquireFailureAnswered ==
    \A r \in Requests :
        Answered(r) /\ Failed(r) /\ outcome[r].at = "acquire" =>
            /\ Status(r) = 500
            /\ Get(resp[r]).detail = Some(Message(outcome[r].exc))
            /\ started[r] = <<>>

\* C5: the answer is the 200 RunResponse only if acquisition and the three
\* invocations succeeded; after a failure it is a 500 whose detail is the
\* description of the failure, without any result.
C5_AnswerCarriesFailure ==
    \A r \in Requests :
        Answered(r) /\ ~Malformed(r) =>
            IF Failed(r)
            THEN /\ Status(r) = 500
                 /\ Get(resp[r]).detail = Some(Message(outcome[r].exc))
                 /\ Get(resp[r]).body = None
            ELSE /\ Status(r) = 200
                 /\ Holds(r)
                 /\ IsSome(produced[r].source)
                 /\ IsSome(produced[r].destination)
                 /\ IsSome(produced[r].similarity)

\* C6: a request whose body does not validate is rejected without an MCP server
\* ever being spawned and without any invocation being started for it.
C6_MalformedRejected ==
    \A r \in Requests :
        Malformed(r) =>
            /\ spawned[r] = 0
            /\ ~Holds(r)
            /\ started[r] = <<>>
            /\ inflight[r] = {}
            /\ pc[r] = "done"
            /\ resp[r] = Some(ValidationError)

\* A request without source_address has been rejected while another request
\* holds an MCP server.
C6_Witness ==
    \E r, q \in Requests :
        /\ body[r] = 3 /\ Answered(r) /\ Status(r) = 422
        /\ q # r /\ Holds(q)

\* The state of the MCP server a request holds.
ServerOf(r) ==
    IF Holds(r) THEN servers[googleMapsMcpServer[r]].state ELSE "none"

\* Everything that belongs to one request.
RequestState(r) ==
    <<pc[r], body[r], req[r], googleMapsMcpServer[r], spawned[r], inflight[r],
      started[r], source_businesses[r], destination_businesses[r],
      similarity_prompt[r], produced[r], outcome[r], resp[r], ServerOf(r)>>

\* Each request holds an MCP server created for it alone and runs its agents on
\* that server only.
OwnServer ==
    \A r \in Requests :
        /\ Holds(r) => servers[googleMapsMcpServer[r]].owner = r
        /\ \A inv \in inflight[r] : inv.mcp_server = googleMapsMcpServer[r]
        /\ \A q \in Requests \ {r} :
               Holds(r) /\ Holds(q) => googleMapsMcpServer[r] # googleMapsMcpServer[q]

\* A step of one request changes nothing that belongs to another request, the
\* state of the other's MCP server included.
OwnStep ==
    \A r \in Requests :
        RequestState(r)' # RequestState(r) =>
            \A q \in Requests \ {r} : RequestState(q)' = RequestState(q)

\* C7: under every interleaving of the requests' steps, each request uses the
\* MCP server it acquired itself and only that one, no server is held by two
\* requests, and no step or failure of one request changes the state, the
\* server or the answer of another.
C7_Isolation == [](OwnServer) /\ [][OwnStep]_vars

\* Both requests hold a server at once, one of them fails in its similarity
\* step while the other is still running its own.
C7_Witness ==
    \E r, q \in Requests :
        /\ r # q
        /\ Failed(r) /\ outcome[r].at = "similarity" /\ pc[r] = "done"
        /\ pc[q] = "similarity" /\ ServerOf(q) = "open"
        /\ \E inv \in inflight[q] : inv.turn >= 1

\* max_turns of each agent.
Budget(agent) ==
    IF agent = "similarity" THEN SIMILARITY_MAX_TURNS ELSE BUSINESS_MAX_TURNS

\* No invocation runs more turns than its budget, and none is started twice.
WithinBudget ==
    \A r \in Requests :
        /\ \A inv \in inflight[r] :
               inv.max_turns = Budget(inv.agent) /\ inv.turn <= Budget(inv.agent)
        /\ \A i, j \in 1..Len(started[r]) : started[r][i] = started[r][j] => i = j

\* C8: a Business Finder invocation runs at most 15 turns and the Similar Area
\* Finder at most 20, each invocation is started at most once (so a request runs
\* at most 15 + 15 + 20 turns), and every request that starts orchestration
\* is eventually answered.
C8_BoundedAndAnswered ==
    /\ [](WithinBudget)
    /\ \A r \in Requests : (pc[r] = "acquire") ~> (pc[r] = "done" /\ Answered(r))

\* The Similar Area Finder used its 20 turns without an output, after both
\* Business Finders had run, and the request was answered.
C8_Witness ==
    \E r \in Requests :
        /\ Answered(r) /\ Failed(r)
        /\ outcome[r].exc = "MaxTurnsExceeded" /\ outcome[r].at = "similarity"

\* C9: the Similar Area Finder's prompt holds one line per business of the
\* source finder's list, in that list's order, and the comparison city, whatever
\* the destination list is; the 200 answer holds the source finder's list as
\* source_businesses, the destination finder's as destination_businesses and
\* the Similar Area Finder's output as similar_area.
C9_DataFlow ==
    \A r \in Requests :
        /\ \A inv \in inflight[r] :
               inv.agent = "similarity" =>
                   /\ Len(inv.prompt.lines) = Len(Get(produced[r].source))
                   /\ \A i \in 1..Len(inv.prompt.lines) :
                          inv.prompt.lines[i] = BusinessLine(Get(produced[r].source)[i])
                   /\ inv.prompt.address = req[r].comparison_city
        /\ (Answered(r) /\ Status(r) = 200 =>
               LET answer == Get(Get(resp[r]).body) IN
               /\ answer.source_businesses.businesses = Get(produced[r].source)
               /\ answer.destination_businesses.businesses = Get(produced[r].destination)
               /\ answer.similar_area = Get(produced[r].similarity))

\* A 200 answer whose source list has two different businesses and whose
\* destination list is another list.
C9_Witness ==
    \E r \in Requests :
        /\ Answered(r) /\ Status(r) = 200
        /\ Get(produced[r].source) = <<ItemB, ItemA>>
        /\ Get(produced[r].destination) = <<ItemA, ItemB>>

\* C10: an invocation is running only while its request holds its MCP server
\* open; the server is acquired once, before the first invocation, and every
\* invocation of the request runs on that server.
C10_HeldWhileRunning ==
    \A r \in Requests :
        /\ spawned[r] <= 1
        /\ (started[r] # <<>> => spawned[r] = 1 /\ Holds(r))
        /\ \A inv \in inflight[r] :
               /\ Holds(r)
               /\ inv.mcp_server = googleMapsMcpServer[r]
               /\ servers[inv.mcp_server].state = "open"
        /\ (ServerOf(r) = "closed" => inflight[r] = {})

\* The third invocation of a request is running, several turns in, on the
\* server the request holds.
C10_Witness ==
    \E r \in Requests :
        \E inv \in inflight[r] :
            /\ inv.agent = "similarity" /\ inv.turn >= 2
            /\ ServerOf(r) = "open"

====
